---- MODULE Spec2Model ----
(***************************************************************************)
(* Model of FileUploadService (bulk import of tabular data): the upload    *)
(* registry, the field mapper with its Levenshtein similarity score, and   *)
(* the row-by-row import orchestrator.                                     *)
(*                                                                         *)
(* Strings whose characters matter (headers, field names) are sequences of *)
(* one-character strings, so that toLowerCase, the [_\s]+ removal and the  *)
(* edit distance are computed character by character.                      *)
(***************************************************************************)
EXTENDS Integers, Sequences, FiniteSets, TLC

VARIABLES
    uploads,    \* this.uploads: uploadId -> FileUpload record
    parsing,    \* uploadFile calls awaiting parseFile: set of uploadIds
    calls,      \* importData invocations: call id -> activation record
    fm,         \* one application of generateFieldMapping: input and result
    sim,        \* one application of calculateSimilarity: inputs and results
    vd,         \* one application of performValidation: input and result
    ft,         \* one application of getFieldType: input and result
    auth,       \* the AuthService: its tokens, the requests of its client
    reply       \* the last call that rejected before touching the registry

vars == <<uploads, parsing, calls, fm, sim, vd, ft, auth, reply>>

(***************************************************************************)
(* Bounds of the model.                                                    *)
(***************************************************************************)
MaxRows == 2        \* data rows of an uploaded file
MaxHeaders == 2     \* headers handed to one generateFieldMapping application

(***************************************************************************)
(* Field names of the schemas and sample source headers.                   *)
(***************************************************************************)
f_name == <<"n", "a", "m", "e">>
f_platform == <<"p", "l", "a", "t", "f", "o", "r", "m">>
f_objective == <<"o", "b", "j", "e", "c", "t", "i", "v", "e">>
f_status == <<"s", "t", "a", "t", "u", "s">>
f_budget == <<"b", "u", "d", "g", "e", "t">>
f_budget_type == <<"b", "u", "d", "g", "e", "t", "_", "t", "y", "p", "e">>
f_start_date == <<"s", "t", "a", "r", "t", "_", "d", "a", "t", "e">>
f_end_date == <<"e", "n", "d", "_", "d", "a", "t", "e">>
f_type == <<"t", "y", "p", "e">>
f_size == <<"s", "i", "z", "e">>
f_description == <<"d", "e", "s", "c", "r", "i", "p", "t", "i", "o", "n">>
f_keyword == <<"k", "e", "y", "w", "o", "r", "d">>
f_match_type == <<"m", "a", "t", "c", "h", "_", "t", "y", "p", "e">>
f_bid == <<"b", "i", "d">>
f_headline == <<"h", "e", "a", "d", "l", "i", "n", "e">>
f_call_to_action == <<"c", "a", "l", "l", "_", "t", "o", "_", "a", "c", "t", "i", "o", "n">>
f_campaign_id == <<"c", "a", "m", "p", "a", "i", "g", "n", "_", "i", "d">>
f_amount == <<"a", "m", "o", "u", "n", "t">>
f_currency == <<"c", "u", "r", "r", "e", "n", "c", "y">>

h_campaign_name == <<"c", "a", "m", "p", "a", "i", "g", "n", "_", "n", "a", "m", "e">>
h_Budget_Type == <<"B", "u", "d", "g", "e", "t", " ", "T", "y", "p", "e">>
h_match_type_sp == <<"m", "a", "t", "c", "h", " ", "t", "y", "p", "e">>
h_statae == <<"s", "t", "a", "t", "a", "e">>
h_naype == <<"n", "a", "y", "p", "e">>
h_tyme == <<"t", "y", "m", "e">>
h_start == <<"s", "t", "a", "r", "t">>
h_xyz == <<"x", "y", "z">>
h_empty == <<>>

\* Source headers the field mapper is applied to: schema fields, spelling
\* variants, near misses, boundary scores (exactly 0.5) and ties.
HeaderPool ==
    { f_name, f_budget, f_budget_type, f_type, f_bid, f_amount, f_keyword,
      h_campaign_name, h_Budget_Type, h_match_type_sp, h_statae, h_naype,
      h_tyme, h_start, h_xyz, h_empty }

ImportTypes == {"CAMPAIGNS", "AUDIENCES", "KEYWORDS", "CREATIVES", "BUDGETS"}

\* An importType outside the enum reaches the "|| []" fallback of the maps.
ImportTypeInputs == ImportTypes \cup {"UNKNOWN"}

getTargetFields(importType) ==
    CASE importType = "CAMPAIGNS" ->
            << f_name, f_platform, f_objective, f_status, f_budget,
               f_budget_type, f_start_date, f_end_date >>
      [] importType = "AUDIENCES" -> << f_name, f_type, f_size, f_description >>
      [] importType = "KEYWORDS" -> << f_keyword, f_match_type, f_bid, f_status >>
      [] importType = "CREATIVES" ->
            << f_name, f_type, f_headline, f_description, f_call_to_action >>
      [] importType = "BUDGETS" -> << f_campaign_id, f_amount, f_type, f_currency >>
      [] OTHER -> << >>

getRequiredFields(importType) ==
    CASE importType = "CAMPAIGNS" -> << f_name, f_platform, f_objective, f_budget >>
      [] importType = "AUDIENCES" -> << f_name, f_type, f_size >>
      [] importType = "KEYWORDS" -> << f_keyword, f_match_type >>
      [] importType = "CREATIVES" -> << f_name, f_type, f_headline >>
      [] importType = "BUDGETS" -> << f_campaign_id, f_amount, f_type >>
      [] OTHER -> << >>

Range(s) == { s[k] : k \in DOMAIN s }

(***************************************************************************)
(* String normalisation: header.toLowerCase().replace(/[_\s]+/g, '')       *)
(***************************************************************************)
UpperToLower ==
    [ A |-> "a", B |-> "b", C |-> "c", D |-> "d", E |-> "e", F |-> "f",
      G |-> "g", H |-> "h", I |-> "i", J |-> "j", K |-> "k", L |-> "l",
      M |-> "m", N |-> "n", O |-> "o", P |-> "p", Q |-> "q", R |-> "r",
      S |-> "s", T |-> "t", U |-> "u", V |-> "v", W |-> "w", X |-> "x",
      Y |-> "y", Z |-> "z" ]

toLowerCase(str) ==
    [ k \in DOMAIN str |->
        IF str[k] \in DOMAIN UpperToLower THEN UpperToLower[str[k]] ELSE str[k] ]

IsSeparator(ch) == ch \in {"_", " ", "\t", "\n", "\r"}

Normalize(str) == SelectSeq(toLowerCase(str), LAMBDA ch : ~IsSeparator(ch))

(***************************************************************************)
(* levenshteinDistance: the dynamic-programming matrix, built row by row.  *)
(* matrix[i][j] has i over str2 and j over str1; a row is the sequence of  *)
(* its cells 0..str1.length.                                               *)
(***************************************************************************)
Max3(a, b, c) ==
    IF a >= b THEN (IF a >= c THEN a ELSE c) ELSE (IF b >= c THEN b ELSE c)

Min3(a, b, c) ==
    IF a <= b THEN (IF a <= c THEN a ELSE c) ELSE (IF b <= c THEN b ELSE c)

\* matrix[0][j] = j; cell j of a row is element j + 1 of the sequence
MatrixRow0(str1) == [ x \in 1..(Len(str1) + 1) |-> x - 1 ]

\* matrix[i][j] from matrix[i-1] (prev) and the cells of row i filled so far
MatrixCellNoSubstitution(prev, row, i, j, str1, str2) ==
    IF str2[i] = str1[j]
      THEN prev[j]
      ELSE Min3(prev[j] + 2, row[j] + 1, prev[j + 1] + 1)

MatrixCell(prev, row, i, j, str1, str2) ==
    IF str2[i] = str1[j]
      THEN prev[j]
      ELSE Min3(prev[j] + 1, row[j] + 1, prev[j + 1] + 1)

\* the inner loop over j: row holds the cells 0..j-1 of row i, j = Len(row)
RECURSIVE FillRow(_, _, _, _, _)
FillRow(prev, row, i, str1, str2) ==
    IF Len(row) > Len(str1)
      THEN row
      ELSE FillRow(prev, Append(row, MatrixCell(prev, row, i, Len(row), str1, str2)),
                   i, str1, str2)

\* the outer loop over i: matrix holds the rows 0..i-1, i = Len(matrix);
\* row i starts as [i]
RECURSIVE FillMatrix(_, _, _)
FillMatrix(matrix, str1, str2) ==
    IF Len(matrix) > Len(str2)
      THEN matrix
      ELSE FillMatrix(Append(matrix,
                             FillRow(matrix[Len(matrix)], << Len(matrix) >>,
                                     Len(matrix), str1, str2)),
                      str1, str2)

\* return matrix[str2.length][str1.length]
levenshteinDistance(str1, str2) ==
    FillMatrix(<< MatrixRow0(str1) >>, str1, str2)[Len(str2) + 1][Len(str1) + 1]

(***************************************************************************)
(* Scores are the exact quotients num/den; the comparisons of the code on  *)
(* the floating-point quotients agree with the comparisons of the exact    *)
(* ones for strings of these lengths.                                      *)
(***************************************************************************)
Score(n, d) == [num |-> n, den |-> d]

ScoreZero == Score(0, 1)

ScoreHalf == Score(1, 2)

ScoreGT(a, b) == a.num * b.den > b.num * a.den

ScoreGE(a, b) == a.num * b.den >= b.num * a.den

ScoreEQ(a, b) == a.num * b.den = b.num * a.den

calculateSimilarityFirstLonger(str1, str2) ==
    IF Len(str1) = 0
      THEN Score(1, 1)
      ELSE Score(Len(str1) - levenshteinDistance(str1, str2), Len(str1))

calculateSimilarity(str1, str2) ==
    LET longer == IF Len(str1) > Len(str2) THEN str1 ELSE str2
        shorter == IF Len(str1) > Len(str2) THEN str2 ELSE str1
    IN  IF Len(longer) = 0
          THEN Score(1, 1)
          ELSE Score(Len(longer) - levenshteinDistance(longer, shorter), Len(longer))

\* calculateSimilarity is a pure function of its two strings: its values on
\* the normalised headers and target fields of the model are computed once,
\* by the definition above, and looked up afterwards.
AllTargetFields == UNION { Range(getTargetFields(importType)) : importType \in ImportTypes }

SimilarityTable ==
    [ pair \in { << Normalize(h), Normalize(t) >> :
                   h \in HeaderPool \cup AllTargetFields, t \in AllTargetFields } |->
        calculateSimilarity(pair[1], pair[2]) ]

Similarity(str1, str2) == SimilarityTable[<< str1, str2 >>]

(***************************************************************************)
(* generateFieldMapping                                                    *)
(***************************************************************************)
\* if (score > bestScore)
IsBetterGE(score, bestScore) == ScoreGE(score, bestScore)

IsBetter(score, bestScore) == ScoreGT(score, bestScore)

\* if (bestScore > 0.5)
AboveThresholdGE(bestScore) == ScoreGE(bestScore, ScoreHalf)

AboveThreshold(bestScore) == ScoreGT(bestScore, ScoreHalf)

\* targetFields.forEach: best is [match, score], k the next target's index
RECURSIVE FindBestMatch(_, _, _, _)
FindBestMatch(normalized, targetFields, k, best) ==
    IF k > Len(targetFields)
      THEN best
      ELSE LET target == targetFields[k]
               score == Similarity(normalized, Normalize(target))
           IN  FindBestMatch(normalized, targetFields, k + 1,
                             IF IsBetter(score, best.score)
                               THEN [match |-> target, score |-> score]
                               ELSE best)

NoMatch == [match |-> <<>>, score |-> ScoreZero]

\* mapping[header] = bestMatch
SetMappingNormalized(mapping, header, bestMatch) ==
    [ h \in DOMAIN mapping \cup {Normalize(header)} |->
        IF h = Normalize(header) THEN Normalize(bestMatch) ELSE mapping[h] ]

SetMapping(mapping, header, bestMatch) ==
    [ h \in DOMAIN mapping \cup {header} |->
        IF h = header THEN bestMatch ELSE mapping[h] ]

EmptyMapping == [ h \in {} |-> <<>> ]

\* headers.forEach: k is the next header's index
RECURSIVE MapHeaders(_, _, _, _)
MapHeaders(headers, targetFields, k, mapping) ==
    IF k > Len(headers)
      THEN mapping
      ELSE LET header == headers[k]
               best == FindBestMatch(Normalize(header), targetFields, 1, NoMatch)
           IN  MapHeaders(headers, targetFields, k + 1,
                          IF AboveThreshold(best.score)
                            THEN SetMapping(mapping, header, best.match)
                            ELSE mapping)

generateFieldMappingRequiredOnly(headers, importType) ==
    MapHeaders(headers, getRequiredFields(importType), 1, EmptyMapping)

generateFieldMapping(headers, importType) ==
    MapHeaders(headers, getTargetFields(importType), 1, EmptyMapping)

(***************************************************************************)
(* Values of the service.  An optional field of a FileUpload (data,        *)
(* mapping, result) is <<>> when undefined and <<v>> when set.             *)
(***************************************************************************)
None == << >>

Some(v) == << v >>

\* Cell values: a JavaScript value with its kind t ("null" apart, the typeof
\* tag), its number n, the characters s of a string (of String(value) for an
\* object), and prim: whether conversion to a primitive succeeds (it throws a
\* TypeError for an object whose toString property is not callable).
CellStr(str) == [t |-> "string", n |-> 0, s |-> str, prim |-> TRUE]

CellNum(num) == [t |-> "number", n |-> num, s |-> << >>, prim |-> TRUE]

Undefined == [t |-> "undefined", n |-> 0, s |-> << >>, prim |-> TRUE]

s_shoes == << "s", "h", "o", "e", "s" >>
s_boots == << "b", "o", "o", "t", "s" >>
s_na == << "n", "/", "a" >>

\* The rows of the sample files: row k of a file is SampleRows[k].  The
\* second row is shorter than the header list (Object.values of an object
\* with fewer keys).
SampleRows ==
    << << CellNum(2), CellStr(s_shoes) >>,
       << CellNum(150) >>,
       << CellNum(3), CellStr(s_boots) >>,
       << CellStr(s_na), CellStr(s_boots) >> >>

SampleHeaders == << f_bid, f_keyword >>

RECURSIVE SeqsUpTo(_, _)
SeqsUpTo(S, n) ==
    IF n = 0
      THEN { << >> }
      ELSE LET shorter == SeqsUpTo(S, n - 1)
           IN  shorter \cup { Append(q, x) : q \in shorter, x \in S }

\* FileData values parseFile can resolve with: totalRows is rows.length.
ParsedFiles ==
    { [headers |-> SampleHeaders, rows |-> SubSeq(SampleRows, 1, n), totalRows |-> n] :
        n \in 0..MaxRows }

\* uploadId values generateUploadId can produce
UploadIds == {"upload_1"}

\* an id no upload was ever registered under
UnknownId == "upload_x"

\* importData invocations, named in the order they are made
CallOrder == << "call_1", "call_2" >>

Calls == Range(CallOrder)

\* importType of the uploads of the service model
UploadImportTypes == {"KEYWORDS"}

\* response.data.id of a successful POST for a row: a fresh id, or an empty one
ServerIds == << "rec_1", "rec_2", "rec_3", "rec_4" >>

ResponseIds(rowNumber) == { "", ServerIds[rowNumber] }

\* what a rejected POST rejects with (an Error instance)
SubmitErrors == { [isError |-> TRUE, message |-> "Network Error"] }

\* what a throwing progress callback throws (not an Error instance)
CallbackErrors == { [isError |-> FALSE, message |-> "progress handler failed"] }

(***************************************************************************)
(* performImport and its helpers                                           *)
(***************************************************************************)
\* const result: ImportResult = { success: false, imported: 0, ... }
InitialResult ==
    [ success |-> FALSE, imported |-> 0, failed |-> 0, skipped |-> 0,
      errors |-> << >>, createdRecords |-> << >>, updatedRecords |-> << >> ]

\* row[index]: undefined past the end of the row
CellAt(row, index) == IF index \in DOMAIN row THEN row[index] ELSE Undefined

\* headers.forEach((header, index) => ...): k is the next header's index
RECURSIVE MapRowHeaders(_, _, _, _, _)
MapRowHeaders(row, headers, mapping, k, mappedData) ==
    IF k > Len(headers)
      THEN mappedData
      ELSE LET header == headers[k]
               mapped == header \in DOMAIN mapping /\ mapping[header] # << >>
           IN  MapRowHeaders(row, headers, mapping, k + 1,
                 IF mapped
                   THEN [ f \in DOMAIN mappedData \cup {mapping[header]} |->
                            IF f = mapping[header] THEN CellAt(row, k)
                                                   ELSE mappedData[f] ]
                   ELSE mappedData)

EmptyRecord == [ f \in {} |-> Undefined ]

\* (a variant that keeps the first cell assigned to a target field)
RECURSIVE MapRowHeadersFirstWins(_, _, _, _, _)
MapRowHeadersFirstWins(row, headers, mapping, k, mappedData) ==
    IF k > Len(headers)
      THEN mappedData
      ELSE LET header == headers[k]
               mapped == header \in DOMAIN mapping /\ mapping[header] # << >>
           IN  MapRowHeadersFirstWins(row, headers, mapping, k + 1,
                 IF mapped /\ mapping[header] \notin DOMAIN mappedData
                   THEN [ f \in DOMAIN mappedData \cup {mapping[header]} |->
                            IF f = mapping[header] THEN CellAt(row, k)
                                                   ELSE mappedData[f] ]
                   ELSE mappedData)

mapRowDataFirstWins(row, headers, mapping) ==
    MapRowHeadersFirstWins(row, headers, mapping, 1, EmptyRecord)

mapRowData(row, headers, mapping) ==
    MapRowHeaders(row, headers, mapping, 1, EmptyRecord)

\* if (recordId): a string is truthy unless it is empty
Truthy(recordId) == recordId # ""

\* if (recordId) { result.imported++; result.createdRecords.push(recordId); }
OnRecordCreated(result, recordId) ==
    IF Truthy(recordId)
      THEN [result EXCEPT !.imported = @ + 1,
                          !.createdRecords = Append(@, recordId)]
      ELSE result

\* error instanceof Error ? error.message : 'Unknown error'
ErrorMessage(error) == IF error.isError THEN error.message ELSE "Unknown error"

\* catch (error) { result.failed++; result.errors.push({row: i + 1, ...}); }
OnRowErrorFirstRow(result, i, rows, error) ==
    [result EXCEPT !.failed = @ + 1,
                   !.errors = Append(@, [ row |-> i + 1, data |-> rows[1],
                                          error |-> ErrorMessage(error) ])]

OnRowError(result, i, rows, error) ==
    [result EXCEPT !.failed = @ + 1,
                   !.errors = Append(@, [ row |-> i + 1, data |-> rows[i + 1],
                                          error |-> ErrorMessage(error) ])]

\* const progress = ((i + 1) / totalRows) * 100, as an exact quotient
Progress(i, totalRows) == Score((i + 1) * 100, totalRows)

\* result.success = result.failed === 0
FinalResultAnyImported(result) == [result EXCEPT !.success = (result.imported > 0)]

FinalResult(result) == [result EXCEPT !.success = (result.failed = 0)]

\* for (let i = 0; i < totalRows; i++): the index after row i, whether its
\* body completed or its catch block ran
NextIndexBreakOnFailure(i, totalRows, failed) == IF failed THEN totalRows ELSE i + 1

NextIndex(i, totalRows, failed) == i + 1

\* await this.importRecord(...) inside the loop: the rows whose POST is
\* issued when the loop reaches index i (0-based)
RowsToSubmitAllAtOnce(i, totalRows) == IF i = 0 THEN 0..(totalRows - 1) ELSE {}

RowsToSubmit(i, totalRows) == IF i < totalRows THEN {i} ELSE {}

\* this.updateUploadStatus(uploadId, FileUploadStatus.COMPLETED)
StatusAfterImportBySuccess(result) == IF result.success THEN "COMPLETED" ELSE "FAILED"

StatusAfterImport(result) == "COMPLETED"

(***************************************************************************)
(* The activation record of one importData invocation.                     *)
(*   pc: "idle" not invoked; "loop" inside performImport's for loop,       *)
(*       awaiting importRecord; "returned" performImport has returned and  *)
(*       importData's continuation is queued; "done" importData settled.   *)
(*   i: the loop index; outstanding: 0-based rows whose POST is in flight. *)
(*   submitted, settled, progress: what this invocation has passed to      *)
(*       importRecord, got back from it, and reported to onProgress.       *)
(***************************************************************************)
IdleCall ==
    [ pc |-> "idle", uploadId |-> UnknownId, mapping |-> EmptyMapping,
      hasCallback |-> FALSE, i |-> 0, totalRows |-> 0, outstanding |-> {},
      result |-> InitialResult, submitted |-> << >>, settled |-> << >>,
      progress |-> << >>, outcome |-> "none", message |-> "" ]

\* throw new Error('Upload not found or no data available')
NoDataMessage == "Upload not found or no data available"

\* updateUploadStatus: no effect unless the upload is registered
updateUploadStatusDroppingData(reg, uploadId, status) ==
    IF uploadId \in DOMAIN reg
      THEN [reg EXCEPT ![uploadId].status = status,
                       ![uploadId].data = IF status = "PROCESSING" THEN @ ELSE None]
      ELSE reg

updateUploadStatus(reg, uploadId, status) ==
    IF uploadId \in DOMAIN reg
      THEN [reg EXCEPT ![uploadId].status = status]
      ELSE reg

\* c is the next importData invocation: the ones before it have been made
IsNextCall(c) ==
    /\ calls[c].pc = "idle"
    /\ \A k \in DOMAIN CallOrder :
         CallOrder[k] = c => \A m \in 1..(k - 1) : calls[CallOrder[m]].pc # "idle"

\* (a variant with a guard against an import in progress)
HasDataNotImporting(reg, uploadId) ==
    /\ uploadId \in DOMAIN reg
    /\ reg[uploadId].data # None
    /\ reg[uploadId].status # "IMPORTING"

\* !(!upload || !upload.data)
HasData(reg, uploadId) == uploadId \in DOMAIN reg /\ reg[uploadId].data # None

DataOf(reg, uploadId) == reg[uploadId].data[1]

\* the importRecord invocations issued for the rows in batch, in row order
RECURSIVE SubmitRows(_, _, _, _)
SubmitRows(log, batch, data, mapping) ==
    IF batch = {}
      THEN log
      ELSE LET r == CHOOSE x \in batch : \A y \in batch : x <= y
           IN  SubmitRows(Append(log, [ row |-> r + 1,
                                        record |-> mapRowData(data.rows[r + 1],
                                                              data.headers, mapping) ]),
                          batch \ {r}, data, mapping)

\* The loop of performImport from index i on, up to its next await or its
\* return: call is the activation with the row(s) before i accounted for.
EnterLoop(call, i, data) ==
    LET batch == RowsToSubmit(i, call.totalRows)
        sent == [call EXCEPT !.i = i,
                             !.outstanding = @ \cup batch,
                             !.submitted = SubmitRows(@, batch, data, call.mapping)]
    IN  IF i >= call.totalRows /\ sent.outstanding = {}
          THEN [sent EXCEPT !.pc = "returned", !.result = FinalResult(@)]
          ELSE [sent EXCEPT !.pc = "loop"]

(***************************************************************************)
(* Initial state: the service as constructed, no upload registered.        *)
(***************************************************************************)
FmIdle ==
    [ phase |-> "idle", headers |-> << >>, importType |-> "UNKNOWN",
      mapping |-> EmptyMapping, row |-> << >>, record |-> EmptyRecord ]

NoUploads == [ u \in {} |-> << >> ]

SimIdle == [ phase |-> "idle" ]

VdIdle == [ phase |-> "idle" ]

FtIdle == [ phase |-> "idle" ]

AuthIdle == [ phase |-> "idle" ]

NoReply == [ op |-> "none", uploadId |-> "", message |-> "" ]

Init ==
    /\ uploads = NoUploads
    /\ parsing = {}
    /\ ft = FtIdle
    /\ auth = AuthIdle
    /\ reply = NoReply
    /\ calls = [ c \in Calls |-> IdleCall ]
    /\ fm = FmIdle
    /\ sim = SimIdle
    /\ vd = VdIdle

(***************************************************************************)
(* uploadFile                                                              *)
(***************************************************************************)
\* validateFile passed: the record is registered (PENDING, then UPLOADING in
\* the same turn) and the call awaits parseFile.
UploadFileStart(importType) ==
    /\ \E uploadId \in UploadIds \ DOMAIN uploads :
         /\ uploads' = [ u \in DOMAIN uploads \cup {uploadId} |->
                           IF u = uploadId
                             THEN [ status |-> "UPLOADING", importType |-> importType,
                                    data |-> None, validation |-> None,
                                    mapping |-> None, result |-> None ]
                             ELSE uploads[u] ]
         /\ parsing' = parsing \cup {uploadId}
    /\ UNCHANGED <<calls, fm, sim, vd, ft, auth, reply>>

\* parseFile resolves: upload.data = fileData; status PROCESSING
ParseResolve(uploadId, fileData) ==
    /\ uploadId \in parsing
    /\ uploads' = updateUploadStatus([uploads EXCEPT ![uploadId].data = Some(fileData)],
                                     uploadId, "PROCESSING")
    /\ parsing' = parsing \ {uploadId}
    /\ UNCHANGED <<calls, fm, sim, vd, ft, auth, reply>>

\* parseFile rejects: uploadFile rethrows through handleError
ParseRejectMarksFailed(uploadId) ==
    /\ uploadId \in parsing
    /\ parsing' = parsing \ {uploadId}
    /\ uploads' = [uploads EXCEPT ![uploadId].status = "FAILED"]
    /\ UNCHANGED <<calls, fm, sim, vd, ft, auth, reply>>

ParseReject(uploadId) ==
    /\ uploadId \in parsing
    /\ parsing' = parsing \ {uploadId}
    /\ UNCHANGED <<uploads, calls, fm, sim, vd, ft, auth, reply>>

(***************************************************************************)
(* suggestFieldMapping                                                     *)
(***************************************************************************)
\* generateFieldMapping on the header lists and import types of the service
\* model, computed once by its definition and looked up afterwards
SuggestedMapping ==
    [ input \in { << file.headers, importType >> :
                    file \in ParsedFiles, importType \in UploadImportTypes } |->
        generateFieldMapping(input[1], input[2]) ]

SuggestFieldMapping(uploadId, importType) ==
    /\ HasData(uploads, uploadId)
    /\ uploads' = [ updateUploadStatus(uploads, uploadId, "MAPPING")
                      EXCEPT ![uploadId].mapping =
                        Some(SuggestedMapping[<< DataOf(uploads, uploadId).headers,
                                                 importType >>]) ]
    /\ UNCHANGED <<parsing, calls, fm, sim, vd, ft, auth, reply>>

(***************************************************************************)
(* importData                                                              *)
(***************************************************************************)
\* The mapping a caller hands to importData: the one suggested for the
\* upload when there is one, otherwise its own, which sends both headers to
\* the same target field.
EditedMapping == [ h \in {f_bid, f_keyword} |-> f_keyword ]

CallerMapping(upload) ==
    IF upload.mapping # None THEN upload.mapping[1] ELSE EditedMapping

\* !upload || !upload.data: throw; the catch block sets FAILED and rethrows
ImportDataRejected(c, uploadId) ==
    /\ IsNextCall(c)
    /\ ~HasData(uploads, uploadId)
    /\ uploads' = updateUploadStatus(uploads, uploadId, "FAILED")
    /\ calls' = [calls EXCEPT ![c] = [IdleCall EXCEPT !.pc = "done",
                                                      !.uploadId = uploadId,
                                                      !.outcome = "rejected",
                                                      !.message = NoDataMessage]]
    /\ UNCHANGED <<parsing, fm, sim, vd, ft, auth, reply>>

\* status IMPORTING, then performImport runs up to its first await
ImportDataStart(c, uploadId, mapping, hasCallback) ==
    /\ IsNextCall(c)
    /\ HasData(uploads, uploadId)
    /\ uploads' = updateUploadStatus(uploads, uploadId, "IMPORTING")
    /\ LET data == DataOf(uploads, uploadId)
           call == [IdleCall EXCEPT !.uploadId = uploadId,
                                    !.mapping = mapping,
                                    !.hasCallback = hasCallback,
                                    !.totalRows = Len(data.rows)]
       IN  calls' = [calls EXCEPT ![c] = EnterLoop(call, 0, data)]
    /\ UNCHANGED <<parsing, fm, sim, vd, ft, auth, reply>>

NoError == [isError |-> FALSE, message |-> ""]

\* importRecord resolves for row r (0-based): count it, report progress (the
\* callback may throw into the catch block), go on with the loop
SubmitResolve(c, r, recordId, thrown) ==
    /\ calls[c].pc = "loop"
    /\ r \in calls[c].outstanding
    /\ thrown # None => calls[c].hasCallback
    /\ LET call == calls[c]
           data == DataOf(uploads, call.uploadId)
           threw == thrown # None
           counted == OnRecordCreated(call.result, recordId)
           after == IF threw THEN OnRowError(counted, r, data.rows, thrown[1])
                             ELSE counted
           settledCall ==
               [call EXCEPT !.result = after,
                            !.outstanding = @ \ {r},
                            !.progress = IF call.hasCallback
                                           THEN Append(@, Progress(r, call.totalRows))
                                           ELSE @,
                            !.settled = Append(@, [ row |-> r + 1, ok |-> TRUE,
                                                    id |-> recordId, error |-> NoError,
                                                    callbackThrew |-> threw ])]
       IN  calls' = [calls EXCEPT ![c] =
                       EnterLoop(settledCall, NextIndex(call.i, call.totalRows, threw), data)]
    /\ UNCHANGED <<uploads, parsing, fm, sim, vd, ft, auth, reply>>

\* importRecord rejects for row r (0-based): the catch block, then the loop
SubmitReject(c, r, error) ==
    /\ calls[c].pc = "loop"
    /\ r \in calls[c].outstanding
    /\ LET call == calls[c]
           data == DataOf(uploads, call.uploadId)
           settledCall ==
               [call EXCEPT !.result = OnRowError(@, r, data.rows, error),
                            !.outstanding = @ \ {r},
                            !.settled = Append(@, [ row |-> r + 1, ok |-> FALSE,
                                                    id |-> "", error |-> error,
                                                    callbackThrew |-> FALSE ])]
       IN  calls' = [calls EXCEPT ![c] =
                       EnterLoop(settledCall, NextIndex(call.i, call.totalRows, TRUE), data)]
    /\ UNCHANGED <<uploads, parsing, fm, sim, vd, ft, auth, reply>>

\* the continuation of importData after await performImport
ImportDataFinish(c) ==
    /\ calls[c].pc = "returned"
    /\ LET call == calls[c]
       IN  /\ uploads' = updateUploadStatus(
                           [uploads EXCEPT ![call.uploadId].result = Some(call.result)],
                           call.uploadId, StatusAfterImport(call.result))
           /\ calls' = [calls EXCEPT ![c].pc = "done", ![c].outcome = "resolved"]
    /\ UNCHANGED <<parsing, fm, sim, vd, ft, auth, reply>>

Next ==
    \/ \E importType \in UploadImportTypes : UploadFileStart(importType)
    \/ \E uploadId \in UploadIds, fileData \in ParsedFiles : ParseResolve(uploadId, fileData)
    \/ \E uploadId \in UploadIds : ParseReject(uploadId)
    \/ \E uploadId \in UploadIds, importType \in UploadImportTypes :
         SuggestFieldMapping(uploadId, importType)
    \/ \E c \in Calls, uploadId \in UploadIds \cup {UnknownId} :
         ImportDataRejected(c, uploadId)
    \/ \E c \in Calls, uploadId \in DOMAIN uploads, hasCallback \in BOOLEAN :
         \E mapping \in { CallerMapping(uploads[uploadId]) } :
           ImportDataStart(c, uploadId, mapping, hasCallback)
    \/ \E c \in Calls, r \in 0..(MaxRows - 1) :
         \E recordId \in ResponseIds(r + 1),
            thrown \in {None} \cup { Some(e) : e \in CallbackErrors } :
           SubmitResolve(c, r, recordId, thrown)
    \/ \E c \in Calls, r \in 0..(MaxRows - 1), error \in SubmitErrors :
         SubmitReject(c, r, error)
    \/ \E c \in Calls : ImportDataFinish(c)

Spec == Init /\ [][Next]_vars

(***************************************************************************)
(* generateFieldMapping as a function of its inputs: the initial states    *)
(* draw the header list and the import type, the one action applies it.    *)
(***************************************************************************)
\* the header lists of one schema field each, for every field of every schema
SchemaHeaderLists == { << f >> : f \in AllTargetFields }

InitMapping ==
    /\ uploads = NoUploads
    /\ parsing = {}
    /\ ft = FtIdle
    /\ auth = AuthIdle
    /\ reply = NoReply
    /\ calls = [ c \in Calls |-> IdleCall ]
    /\ sim = SimIdle
    /\ vd = VdIdle
    /\ \E headers \in SeqsUpTo(HeaderPool, MaxHeaders) \cup SchemaHeaderLists,
          importType \in ImportTypeInputs :
         fm = [FmIdle EXCEPT !.phase = "input", !.headers = headers,
                             !.importType = importType]

ApplyGenerateFieldMapping ==
    /\ fm.phase = "input"
    /\ fm' = [fm EXCEPT !.phase = "mapped",
                        !.mapping = generateFieldMapping(fm.headers, fm.importType)]
    /\ UNCHANGED <<uploads, parsing, calls, sim, vd, ft, auth, reply>>

\* The rows mapRowData is applied to with the suggested mapping: cell k holds
\* the number k, and a row may be shorter than the header list.
MappingRows == { [ k \in 1..n |-> CellNum(k) ] : n \in 0..MaxHeaders }

\* mapRowData(row, headers, mapping) with the mapping generateFieldMapping
\* suggested for the headers
ApplyMapRowData(row) ==
    /\ fm.phase = "mapped"
    /\ fm' = [fm EXCEPT !.phase = "applied",
                        !.row = row,
                        !.record = mapRowData(row, fm.headers, fm.mapping)]
    /\ UNCHANGED <<uploads, parsing, calls, sim, vd, ft, auth, reply>>

NextMapping ==
    \/ ApplyGenerateFieldMapping
    \/ \E row \in MappingRows : ApplyMapRowData(row)

SpecMapping == InitMapping /\ [][NextMapping]_vars

(***************************************************************************)
(* Properties of the import orchestrator (specification Spec).             *)
(***************************************************************************)
\* performImport of invocation c has returned (importData may still have to
\* run its continuation)
PerformImportReturned(c) ==
    calls[c].pc \in {"returned", "done"} /\ calls[c].outcome # "rejected"

\* invocation c got past the guard of importData
ImportStarted(c) == calls[c].pc \in {"loop", "returned", "done"} /\ calls[c].outcome # "rejected"

RowsOfCall(c) == DataOf(uploads, calls[c].uploadId).rows

CountIn(seq, Test(_)) == Cardinality({ k \in DOMAIN seq : Test(seq[k]) })

\* the ids the settled rows of invocation c resolved with, in settling order
RECURSIVE ResolvedIds(_, _)
ResolvedIds(settled, k) ==
    IF k > Len(settled)
      THEN << >>
      ELSE IF settled[k].ok
             THEN << settled[k].id >> \o ResolvedIds(settled, k + 1)
             ELSE ResolvedIds(settled, k + 1)

\* C1: when performImport has returned, importRecord has been invoked exactly
\* once for every row 1..N of the upload, whatever rows failed: the number of
\* submit calls equals N.
C1_NoShortCircuit ==
    \A c \in Calls :
        PerformImportReturned(c) =>
            /\ calls[c].totalRows = Len(RowsOfCall(c))
            /\ Len(calls[c].submitted) = Len(RowsOfCall(c))
            /\ \A r \in 1..Len(RowsOfCall(c)) :
                 CountIn(calls[c].submitted, LAMBDA e : e.row = r) = 1

\* C1 witness: an import of at least two rows has returned after the submit
\* of row 1 was rejected, and row 2 was still submitted.
C1_Witness ==
    \E c \in Calls :
        /\ PerformImportReturned(c)
        /\ calls[c].totalRows >= 2
        /\ ~calls[c].settled[1].ok
        /\ calls[c].settled[1].row = 1
        /\ \E k \in DOMAIN calls[c].submitted : calls[c].submitted[k].row = 2

\* C2: within one import at most one row submission is outstanding; rows are
\* submitted in ascending order 1, 2, ...; and row i+1 is submitted only once
\* rows 1..i have all settled.
C2_SequentialRows ==
    \A c \in Calls :
        /\ Cardinality(calls[c].outstanding) <= 1
        /\ \A k \in DOMAIN calls[c].submitted : calls[c].submitted[k].row = k
        /\ \A k \in DOMAIN calls[c].settled : calls[c].settled[k].row = k
        /\ \A r \in calls[c].outstanding : r + 1 = Len(calls[c].submitted)
        /\ Len(calls[c].submitted) =
             Len(calls[c].settled) + Cardinality(calls[c].outstanding)

\* C2 witness: row 2 of an import is in flight after row 1 has settled.
C2_Witness ==
    \E c \in Calls :
        /\ calls[c].pc = "loop"
        /\ calls[c].outstanding = {1}
        /\ Len(calls[c].settled) = 1

\* C3 (as claimed): every row whose submit resolved, whatever id it returned,
\* is counted as imported and has its id in createdRecords, in row order.
C3_EveryResolvedRowImported ==
    \A c \in Calls :
        PerformImportReturned(c) =>
            /\ calls[c].result.imported = CountIn(calls[c].settled, LAMBDA e : e.ok)
            /\ calls[c].result.imported = Len(calls[c].result.createdRecords)
            /\ calls[c].result.createdRecords = ResolvedIds(calls[c].settled, 1)

\* C4: every row whose submit was rejected adds one to failed and one error
\* entry with its 1-based row number, its data and the error's message; in
\* every state failed = length(errors); the entries are in ascending row order.
C4_FailureRecorded ==
    \A c \in Calls :
        ImportStarted(c) =>
            LET result == calls[c].result
                settled == calls[c].settled
            IN  /\ result.failed = Len(result.errors)
                /\ result.failed =
                     CountIn(settled, LAMBDA e : ~e.ok \/ e.callbackThrew)
                /\ \A k, m \in DOMAIN result.errors :
                     k < m => result.errors[k].row < result.errors[m].row
                /\ \A k \in DOMAIN settled :
                     ~settled[k].ok =>
                        /\ CountIn(result.errors,
                                   LAMBDA e : e.row = settled[k].row) = 1
                        /\ \E m \in DOMAIN result.errors :
                             result.errors[m] =
                                [ row |-> settled[k].row,
                                  data |-> RowsOfCall(c)[settled[k].row],
                                  error |-> settled[k].error.message ]

\* C4 witness: the submit of row 2 was rejected and its entry is recorded.
C4_Witness ==
    \E c \in Calls :
        /\ ImportStarted(c)
        /\ \E k \in DOMAIN calls[c].settled :
             ~calls[c].settled[k].ok /\ calls[c].settled[k].row = 2
        /\ \E m \in DOMAIN calls[c].result.errors :
             calls[c].result.errors[m].row = 2

\* C5: importData on an upload that has data sets IMPORTING and is not
\* rejected; when it settles it resolves with the accumulated result, stores
\* it in upload.result and sets COMPLETED, however many rows failed; and a
\* status becomes FAILED only on an upload without data.
C5_RowFailuresNotEscalated ==
    [][ /\ \A c \in Calls :
             /\ (calls[c].pc = "idle" /\ calls'[c].pc # "idle"
                   /\ HasData(uploads, calls'[c].uploadId)) =>
                    /\ calls'[c].outcome # "rejected"
                    /\ calls'[c].pc \in {"loop", "returned"}
                    /\ uploads'[calls'[c].uploadId].status = "IMPORTING"
             /\ (calls[c].pc # "done" /\ calls'[c].pc = "done"
                   /\ HasData(uploads, calls'[c].uploadId)) =>
                    /\ calls'[c].outcome = "resolved"
                    /\ calls[c].pc = "returned"
                    /\ uploads'[calls[c].uploadId].result = Some(calls[c].result)
                    /\ uploads'[calls[c].uploadId].status = "COMPLETED"
        /\ \A u \in DOMAIN uploads' :
             (uploads'[u].status = "FAILED"
                /\ (u \notin DOMAIN uploads \/ uploads[u].status # "FAILED")) =>
                u \in DOMAIN uploads /\ uploads[u].data = None
      ]_vars

\* C5 witness: an import whose every row failed has settled: resolved, the
\* result stored, the upload COMPLETED.
C5_Witness ==
    \E c \in Calls :
        /\ calls[c].pc = "done"
        /\ calls[c].outcome = "resolved"
        /\ calls[c].totalRows >= 1
        /\ calls[c].result.failed = calls[c].totalRows
        /\ calls[c].result.imported = 0
        /\ uploads[calls[c].uploadId].status = "COMPLETED"
        /\ uploads[calls[c].uploadId].result = Some(calls[c].result)

\* C6: when the import has finished, success is true iff failed = 0; an
\* import of zero rows is a success.
C6_SuccessIffNoFailure ==
    \A c \in Calls :
        PerformImportReturned(c) =>
            /\ calls[c].result.success <=> (calls[c].result.failed = 0)
            /\ calls[c].totalRows = 0 => calls[c].result.success

\* C6 witness: a finished import with one row imported and one failed,
\* success false.
C6_Witness ==
    \E c \in Calls :
        /\ PerformImportReturned(c)
        /\ calls[c].result.imported >= 1
        /\ calls[c].result.failed >= 1
        /\ ~calls[c].result.success

\* C7 (as claimed): with a progress callback, the callback has been invoked
\* once per row when the import has finished, the k-th time with k/N*100,
\* so N times and last with 100.
C7_ProgressAfterEveryRow ==
    \A c \in Calls :
        (PerformImportReturned(c) /\ calls[c].hasCallback) =>
            /\ Len(calls[c].progress) = calls[c].totalRows
            /\ \A k \in DOMAIN calls[c].progress :
                 ScoreEQ(calls[c].progress[k], Score(k * 100, calls[c].totalRows))
            /\ calls[c].totalRows > 0 =>
                 ScoreEQ(calls[c].progress[Len(calls[c].progress)], Score(100, 1))

(***************************************************************************)
(* Properties of the field mapper (specification SpecMapping).             *)
(***************************************************************************)
\* the similarity scores of a header against the targets of an import type,
\* in schema order
TargetScores(header, importType) ==
    [ k \in DOMAIN getTargetFields(importType) |->
        Similarity(Normalize(header), Normalize(getTargetFields(importType)[k])) ]

\* the best score of a header over the schema exceeds 0.5
BestScoreAboveHalf(header, importType) ==
    \E k \in DOMAIN getTargetFields(importType) :
        ScoreGT(TargetScores(header, importType)[k], ScoreHalf)

\* C8: a header is in the mapping only if its best similarity score over the
\* schema's target fields is strictly greater than 0.5; "campaign_name"
\* scores 4/12 against "name" and is not mapped to it.
C8_MappingThreshold ==
    fm.phase = "mapped" =>
        /\ \A h \in DOMAIN fm.mapping : BestScoreAboveHalf(h, fm.importType)
        /\ \A k \in DOMAIN fm.headers :
             ~BestScoreAboveHalf(fm.headers[k], fm.importType) =>
                fm.headers[k] \notin DOMAIN fm.mapping
        /\ h_campaign_name \in Range(fm.headers) =>
             /\ Normalize(h_campaign_name) =
                  << "c", "a", "m", "p", "a", "i", "g", "n", "n", "a", "m", "e" >>
             /\ Similarity(Normalize(h_campaign_name), Normalize(f_name)) = Score(4, 12)
             /\ ~( h_campaign_name \in DOMAIN fm.mapping
                   /\ fm.mapping[h_campaign_name] = f_name )

\* C8 witness: a header whose best score is exactly 0.5 was left out of a
\* mapping that holds another header.
C8_Witness ==
    /\ fm.phase = "mapped"
    /\ \E k \in DOMAIN fm.headers :
         /\ fm.headers[k] \notin DOMAIN fm.mapping
         /\ \E j \in DOMAIN getTargetFields(fm.importType) :
              ScoreEQ(TargetScores(fm.headers[k], fm.importType)[j], ScoreHalf)
         /\ ~BestScoreAboveHalf(fm.headers[k], fm.importType)
    /\ DOMAIN fm.mapping # {}

\* C9: the target chosen for a mapped header has the greatest score among
\* the schema's targets, and is the first in schema order with that score.
C9_BestMatchFirstOnTies ==
    fm.phase = "mapped" =>
        \A h \in DOMAIN fm.mapping :
            LET targets == getTargetFields(fm.importType)
                scores == TargetScores(h, fm.importType)
            IN  \E k \in DOMAIN targets :
                    /\ targets[k] = fm.mapping[h]
                    /\ \A j \in DOMAIN targets : ScoreGE(scores[k], scores[j])
                    /\ \A j \in 1..(k - 1) : ScoreGT(scores[k], scores[j])

\* C9 witness: a mapped header whose greatest score is shared by two targets;
\* the earlier one was chosen.
C9_Witness ==
    /\ fm.phase = "mapped"
    /\ \E h \in DOMAIN fm.mapping :
         LET targets == getTargetFields(fm.importType)
             scores == TargetScores(h, fm.importType)
         IN  \E k, j \in DOMAIN targets :
                 /\ k < j
                 /\ targets[k] = fm.mapping[h]
                 /\ ScoreEQ(scores[k], scores[j])
                 /\ \A m \in DOMAIN targets : ScoreGE(scores[k], scores[m])

\* C10: every key of the mapping is one of the source headers and every value
\* one of the schema's target fields; with no headers or an empty schema the
\* mapping is empty.
C10_MappingSubset ==
    fm.phase = "mapped" =>
        /\ DOMAIN fm.mapping \subseteq Range(fm.headers)
        /\ \A h \in DOMAIN fm.mapping :
             fm.mapping[h] \in Range(getTargetFields(fm.importType))
        /\ (fm.headers = << >> \/ getTargetFields(fm.importType) = << >>) =>
             DOMAIN fm.mapping = {}

\* C10 witness: of two headers, "Budget Type" is mapped to budget_type under
\* its own spelling and the other is left out.
C10_Witness ==
    /\ fm.phase = "mapped"
    /\ Len(fm.headers) = 2
    /\ DOMAIN fm.mapping = {h_Budget_Type}
    /\ fm.mapping[h_Budget_Type] = f_budget_type

(***************************************************************************)
(* calculateSimilarity as a function of its inputs: the initial states     *)
(* draw the two strings, the one action applies the function to them in    *)
(* both orders and to the first string with itself.                        *)
(***************************************************************************)
MaxStrLen == 3      \* length of the strings handed to calculateSimilarity

Alphabet == {"a", "b"}

SimStrings == SeqsUpTo(Alphabet, MaxStrLen)

InitSimilarity ==
    /\ uploads = NoUploads
    /\ parsing = {}
    /\ ft = FtIdle
    /\ auth = AuthIdle
    /\ reply = NoReply
    /\ calls = [ c \in Calls |-> IdleCall ]
    /\ fm = FmIdle
    /\ vd = VdIdle
    /\ \E a \in SimStrings, b \in SimStrings :
         sim = [ phase |-> "input", a |-> a, b |-> b,
                 ab |-> ScoreZero, ba |-> ScoreZero, aa |-> ScoreZero ]

ApplyCalculateSimilarity ==
    /\ sim.phase = "input"
    /\ sim' = [sim EXCEPT !.phase = "scored",
                          !.ab = calculateSimilarity(sim.a, sim.b),
                          !.ba = calculateSimilarity(sim.b, sim.a),
                          !.aa = calculateSimilarity(sim.a, sim.a)]
    /\ UNCHANGED <<uploads, parsing, calls, fm, vd, ft, auth, reply>>

NextSimilarity == ApplyCalculateSimilarity

SpecSimilarity == InitSimilarity /\ [][NextSimilarity]_vars

(***************************************************************************)
(* Properties of calculateSimilarity (specification SpecSimilarity).       *)
(***************************************************************************)
\* C11: the score of (a, b) equals the score of (b, a) for all strings a and
\* b, strings of equal length included (there the two calls hand the strings
\* to levenshteinDistance in opposite orders).
C11_SimilaritySymmetric ==
    sim.phase = "scored" => sim.ab = sim.ba

C11_Witness ==
    /\ sim.phase = "scored"
    /\ Len(sim.a) = Len(sim.b)
    /\ sim.a # sim.b
    /\ Len(sim.a) >= 2
    /\ sim.ab = sim.ba
    /\ ScoreGT(sim.ab, ScoreZero)
    /\ ScoreGT(Score(1, 1), sim.ab)

\* C12: every score lies in [0, 1], the score of a string with itself is 1,
\* and the score of two empty strings is 1.
C12_SimilarityBounds ==
    sim.phase = "scored" =>
        /\ ScoreGE(sim.ab, ScoreZero)
        /\ ScoreGE(Score(1, 1), sim.ab)
        /\ sim.ab.den > 0
        /\ ScoreEQ(sim.aa, Score(1, 1))
        /\ (sim.a = << >> /\ sim.b = << >>) => sim.ab = Score(1, 1)

C12_Witness ==
    /\ sim.phase = "scored"
    /\ sim.a = << "a", "a", "a" >>
    /\ sim.b = << "b", "b" >>
    /\ ScoreEQ(sim.ab, ScoreZero)
    /\ ScoreEQ(sim.aa, Score(1, 1))

\* The strings one single-character edit away from s, no longer than maxLen.
Deletions(s) ==
    { SubSeq(s, 1, k - 1) \o SubSeq(s, k + 1, Len(s)) : k \in 1..Len(s) }

Substitutions(s) ==
    { [s EXCEPT ![k] = ch] : k \in 1..Len(s), ch \in Alphabet }

Insertions(s) ==
    { SubSeq(s, 1, k) \o << ch >> \o SubSeq(s, k + 1, Len(s)) :
        k \in 0..Len(s), ch \in Alphabet }

OneEdit(s, maxLen) ==
    Deletions(s) \cup Substitutions(s)
        \cup (IF Len(s) < maxLen THEN Insertions(s) ELSE {})

\* The strings at most k single-character edits away from a string of S.
RECURSIVE WithinEdits(_, _, _)
WithinEdits(S, k, maxLen) ==
    IF k = 0
      THEN S
      ELSE LET prev == WithinEdits(S, k - 1, maxLen)
           IN  prev \cup UNION { OneEdit(s, maxLen) : s \in prev }

Longest(a, b) == IF Len(a) > Len(b) THEN Len(a) ELSE Len(b)

\* The least number of single-character edits turning a into b.
EditDistance(a, b) ==
    CHOOSE k \in 0..Longest(a, b) :
        /\ b \in WithinEdits({a}, k, Longest(a, b))
        /\ \A j \in 0..(k - 1) : b \notin WithinEdits({a}, j, Longest(a, b))

\* C20: for strings a and b not both empty the score is (max - d) / max with
\* max the greater length and d the least number of single-character
\* insertions, deletions and substitutions turning one string into the
\* other, which is what levenshteinDistance returns.
C20_SimilarityFormula ==
    sim.phase = "scored" =>
        /\ levenshteinDistance(sim.a, sim.b) = EditDistance(sim.a, sim.b)
        /\ Longest(sim.a, sim.b) > 0 =>
             sim.ab = Score(Longest(sim.a, sim.b) - EditDistance(sim.a, sim.b),
                            Longest(sim.a, sim.b))

C20_Witness ==
    /\ sim.phase = "scored"
    /\ sim.a = << "a", "b", "a" >>
    /\ sim.b = << "b", "a" >>
    /\ EditDistance(sim.a, sim.b) = 1
    /\ sim.ab = Score(2, 3)

(***************************************************************************)
(* Cell values of parsed files besides strings and numbers (a CSV file     *)
(* parsed with dynamicTyping yields null, numbers and strings, a JSON file *)
(* any JSON value), and the conversions validateType applies to them.      *)
(***************************************************************************)
CellNull == [t |-> "null", n |-> 0, s |-> << >>, prim |-> TRUE]

\* {"toString": 1}: valueOf returns the object and toString is not callable,
\* so Number(value) and Date.parse(value) throw a TypeError
CellOpaque == [t |-> "object", n |-> 0, s |-> << >>, prim |-> FALSE]

IsWhitespace(ch) == ch \in {" ", "\t", "\n", "\r"}

IsDigit(ch) == ch \in {"0", "1", "2", "3", "4", "5", "6", "7", "8", "9"}

RECURSIVE TrimStart(_)
TrimStart(str) ==
    IF str # << >> /\ IsWhitespace(Head(str)) THEN TrimStart(Tail(str)) ELSE str

RECURSIVE TrimEnd(_)
TrimEnd(str) ==
    IF str # << >> /\ IsWhitespace(str[Len(str)])
      THEN TrimEnd(SubSeq(str, 1, Len(str) - 1))
      ELSE str

Trim(str) == TrimEnd(TrimStart(str))

\* a signed decimal literal: digits with at most one point (the strings of
\* the model hold no exponent, radix prefix or "Infinity")
IsDecimalLiteral(str) ==
    LET body == IF str # << >> /\ Head(str) \in {"+", "-"} THEN Tail(str) ELSE str
    IN  /\ \A k \in DOMAIN body : IsDigit(body[k]) \/ body[k] = "."
        /\ \E k \in DOMAIN body : IsDigit(body[k])
        /\ Cardinality({ k \in DOMAIN body : body[k] = "." }) <= 1

\* isNaN(Number(str)): a string of white space only converts to 0
StringToNumberIsNaN(str) == Trim(str) # << >> /\ ~IsDecimalLiteral(Trim(str))

\* isNaN(Number(value)) for a value that converts to a primitive
NumberIsNaN(value) ==
    CASE value.t = "number" -> FALSE
      [] value.t = "string" -> StringToNumberIsNaN(value.s)
      [] value.t = "boolean" -> FALSE
      [] value.t = "null" -> FALSE
      [] value.t = "undefined" -> TRUE
      [] value.t = "object" -> StringToNumberIsNaN(value.s)

DigitChars == << "0", "1", "2", "3", "4", "5", "6", "7", "8", "9" >>

RECURSIVE NatToChars(_)
NatToChars(num) ==
    IF num < 10
      THEN << DigitChars[num + 1] >>
      ELSE Append(NatToChars(num \div 10), DigitChars[(num % 10) + 1])

\* String(value)
ToStringChars(value) ==
    IF value.t = "number"
      THEN (IF value.n < 0 THEN << "-" >> \o NatToChars(0 - value.n)
                           ELSE NatToChars(value.n))
      ELSE value.s

\* YYYY-MM-DD
IsIsoDate(str) ==
    /\ Len(str) = 10
    /\ \A k \in {1, 2, 3, 4, 6, 7, 9, 10} : IsDigit(str[k])
    /\ str[5] = "-"
    /\ str[8] = "-"

\* isNaN(Date.parse(value)): a string not in the date-time format falls back
\* to the engine's own heuristics; lenient says whether those accept a string
\* with digits in it (a string with no digit is refused by all of them)
DateParseIsNaN(value, lenient) ==
    LET str == ToStringChars(value)
    IN  IF IsIsoDate(str)
          THEN FALSE
          ELSE IF \E k \in DOMAIN str : IsDigit(str[k]) THEN ~lenient ELSE TRUE

(***************************************************************************)
(* performValidation and its helpers                                       *)
(***************************************************************************)
f_created_at == << "c", "r", "e", "a", "t", "e", "d", "_", "a", "t" >>
f_updated_at == << "u", "p", "d", "a", "t", "e", "d", "_", "a", "t" >>

\* String.prototype.includes
Includes(str, sub) ==
    \E k \in 0..(Len(str) - Len(sub)) : SubSeq(str, k + 1, k + Len(sub)) = sub

numericFields == << f_budget, f_amount, f_bid, f_size >>

dateFields == << f_start_date, f_end_date, f_created_at, f_updated_at >>

getFieldTypeDateFirst(field) ==
    IF \E k \in DOMAIN dateFields : Includes(toLowerCase(field), dateFields[k])
      THEN "date"
      ELSE IF \E k \in DOMAIN numericFields :
                   Includes(toLowerCase(field), numericFields[k])
             THEN "number"
             ELSE "string"

getFieldType(field) ==
    IF \E k \in DOMAIN numericFields : Includes(toLowerCase(field), numericFields[k])
      THEN "number"
      ELSE IF \E k \in DOMAIN dateFields : Includes(toLowerCase(field), dateFields[k])
             THEN "date"
             ELSE "string"

BudgetMax == 1000000
BidMax == 100

\* { min, max } | null
getFieldRange(field) ==
    IF Includes(toLowerCase(field), f_budget) \/ Includes(toLowerCase(field), f_amount)
      THEN Some([min |-> 0, max |-> BudgetMax])
      ELSE IF Includes(toLowerCase(field), f_bid)
             THEN Some([min |-> 0, max |-> BidMax])
             ELSE None

\* requiredFields.includes(field)
isRequiredField(field, importType) == field \in Range(getRequiredFields(importType))

\* value === null || value === undefined || value === ''
IsEmptyValueOrBlank(value) ==
    \/ value.t \in {"null", "undefined"}
    \/ value.t = "string" /\ Trim(value.s) = << >>

IsEmptyValue(value) ==
    \/ value.t \in {"null", "undefined"}
    \/ value.t = "string" /\ value.s = << >>

\* validateType throws where it converts an object that has no primitive value
validateTypeThrows(value, expectedType) ==
    ~value.prim /\ expectedType \in {"number", "date"}

validateTypeNumbersOnly(value, expectedType, lenient) ==
    CASE expectedType = "number" -> value.t = "number"
      [] expectedType = "date" -> ~DateParseIsNaN(value, lenient)
      [] expectedType = "string" -> value.t = "string"
      [] OTHER -> TRUE

validateType(value, expectedType, lenient) ==
    CASE expectedType = "number" -> value.t = "number" \/ ~NumberIsNaN(value)
      [] expectedType = "date" -> ~DateParseIsNaN(value, lenient)
      [] expectedType = "string" -> value.t = "string"
      [] OTHER -> TRUE

\* value < range.min || value > range.max
OutsideRangeExclusive(value, range) == value.n <= range.min \/ value.n >= range.max

OutsideRange(value, range) == value.n < range.min \/ value.n > range.max

\* The message of an error or warning: the template and what it interpolates.
Message(text, field, expected, range) ==
    [ text |-> text, field |-> field, expected |-> expected, range |-> range ]

MissingColumnError(field) ==
    [ row |-> 0, column |-> field, value |-> CellNull, type |-> "required",
      message |-> Message("Missing required column: ${field}", field, "", None) ]

RequiredError(rowNumber, header, value) ==
    [ row |-> rowNumber, column |-> header, value |-> value, type |-> "required",
      message |-> Message("Required field is empty", << >>, "", None) ]

TypeError(rowNumber, header, value, expectedType) ==
    [ row |-> rowNumber, column |-> header, value |-> value, type |-> "type",
      message |-> Message("Invalid type. Expected ${expectedType}", << >>,
                          expectedType, None) ]

RangeWarning(rowNumber, header, value, range) ==
    [ row |-> rowNumber, column |-> header, value |-> value,
      message |-> Message("Value outside expected range (${range.min}-${range.max})",
                          << >>, "", Some(range)) ]

\* errors.push(entry), warnings.push(entry)
Unshift(list, entry) == << entry >> \o list

Push(list, entry) == Append(list, entry)

\* The body of headers.forEach in validateRow for column colIndex (from 1):
\* acc holds the errors and warnings pushed so far and whether a TypeError
\* was thrown.
ValidateCell(acc, row, headers, importType, rowNumber, colIndex, lenient) ==
    LET header == headers[colIndex]
        value == CellAt(row, colIndex)
        expectedType == getFieldType(header)
        range == getFieldRange(header)
        a1 == IF isRequiredField(header, importType) /\ IsEmptyValue(value)
                THEN [acc EXCEPT !.errors = Push(@, RequiredError(rowNumber, header, value))]
                ELSE acc
    IN  IF ~IsEmptyValue(value) /\ validateTypeThrows(value, expectedType)
          THEN [a1 EXCEPT !.threw = TRUE]
          ELSE LET a2 == IF ~IsEmptyValue(value)
                              /\ ~validateType(value, expectedType, lenient)
                           THEN [a1 EXCEPT !.errors =
                                   Push(@, TypeError(rowNumber, header, value,
                                                     expectedType))]
                           ELSE a1
               IN  IF /\ expectedType = "number"
                      /\ value.t = "number"
                      /\ range # None
                      /\ OutsideRange(value, range[1])
                     THEN [a2 EXCEPT !.warnings =
                             Push(@, RangeWarning(rowNumber, header, value, range[1]))]
                     ELSE a2

\* headers.forEach((header, colIndex) => ...): colIndex is the next column
RECURSIVE validateRow(_, _, _, _, _, _, _)
validateRow(acc, row, headers, importType, rowNumber, colIndex, lenient) ==
    IF acc.threw \/ colIndex > Len(headers)
      THEN acc
      ELSE validateRow(ValidateCell(acc, row, headers, importType, rowNumber,
                                    colIndex, lenient),
                       row, headers, importType, rowNumber, colIndex + 1, lenient)

\* data.rows.forEach((row, index) => validateRow(row, ..., index + 1, ...))
RECURSIVE ValidateRows(_, _, _, _, _)
ValidateRows(acc, data, importType, rowNumber, lenient) ==
    IF acc.threw \/ rowNumber > Len(data.rows)
      THEN acc
      ELSE ValidateRows(validateRow(acc, data.rows[rowNumber], data.headers,
                                    importType, rowNumber, 1, lenient),
                        data, importType, rowNumber + 1, lenient)

\* !data.headers.includes(field)
HeaderMissingAlways(headers, field) == TRUE

HeaderMissing(headers, field) == field \notin Range(headers)

\* requiredFields.forEach: k is the next required field's index
RECURSIVE MissingColumnErrors(_, _, _, _)
MissingColumnErrors(errors, requiredFields, headers, k) ==
    IF k > Len(requiredFields)
      THEN errors
      ELSE MissingColumnErrors(
             IF HeaderMissing(headers, requiredFields[k])
               THEN Append(errors, MissingColumnError(requiredFields[k]))
               ELSE errors,
             requiredFields, headers, k + 1)

\* errors.filter((e) => e.type === 'required').length
RequiredCount(errors) == Len(SelectSeq(errors, LAMBDA e : e.type = "required"))

InvalidRowsAllErrors(errors) == Len(errors)

InvalidRows(errors) == RequiredCount(errors)

\* return { isValid, errors, warnings, summary: { ... } }
ValidationResultOf(data, errors, warnings) ==
    [ isValid |-> Len(errors) = 0,
      errors |-> errors,
      warnings |-> warnings,
      summary |-> [ totalRows |-> data.totalRows,
                    validRows |-> data.totalRows - InvalidRows(errors),
                    invalidRows |-> InvalidRows(errors),
                    errorCount |-> Len(errors),
                    warningCount |-> Len(warnings) ] ]

\* The outcome of performValidation: the result it resolves with, or the
\* TypeError it rejects with.
performValidation(data, importType, lenient) ==
    LET acc == ValidateRows(
                 [ errors |-> MissingColumnErrors(<< >>, getRequiredFields(importType),
                                                  data.headers, 1),
                   warnings |-> << >>,
                   threw |-> FALSE ],
                 data, importType, 1, lenient)
    IN  IF acc.threw
          THEN [ outcome |-> "threw", result |-> None ]
          ELSE [ outcome |-> "returned",
                 result |-> Some(ValidationResultOf(data, acc.errors, acc.warnings)) ]

(***************************************************************************)
(* performValidation as a function of its inputs: the initial states draw  *)
(* the file data and the import type, the one action applies it.           *)
(***************************************************************************)
MaxValRows == 2     \* data rows of a validated file

s_blank == << " ", " ", " " >>
s_abc == << "a", "b", "c" >>
s_150 == << "1", "5", "0" >>
s_date == << "2", "0", "2", "4", "-", "0", "1", "-", "1", "5" >>
s_exact == << "e", "x", "a", "c", "t" >>

\* the values of the first cell of a row
ValCells ==
    { CellNull, CellStr(<< >>), CellStr(s_blank), CellStr(s_abc), CellStr(s_150),
      CellStr(s_date), CellNum(0 - 1), CellNum(BidMax), CellNum(150),
      CellNum(BudgetMax + 1), CellOpaque }

\* rows of two cells, and a row with no cell, with both cells empty, with a
\* cell more than any header list has columns
ValRows ==
    { << c, CellStr(s_exact) >> : c \in ValCells }
        \cup { << >>,
               << CellStr(<< >>), CellNull >>,
               << CellStr(s_abc), CellStr(s_exact), CellNum(7) >> }

ValHeaderLists ==
    { << >>,
      << f_keyword >>,
      << f_keyword, f_match_type >>,
      << f_bid, f_match_type >>,
      << f_budget, f_name >>,
      << f_size, f_name >>,
      << f_start_date, f_match_type >>,
      << f_name, f_match_type >>,
      << h_Budget_Type, f_match_type >>,
      << f_amount, f_bid >> }

ValImportTypes == {"KEYWORDS", "CAMPAIGNS", "UNKNOWN"}

\* FileData values a parser resolves with: totalRows is rows.length
ValFiles ==
    { [headers |-> headers, rows |-> rows, totalRows |-> Len(rows)] :
        headers \in ValHeaderLists, rows \in SeqsUpTo(ValRows, MaxValRows) }

HasDateColumn(headers) ==
    \E k \in DOMAIN headers : getFieldType(headers[k]) = "date"

InitValidation ==
    /\ uploads = NoUploads
    /\ parsing = {}
    /\ ft = FtIdle
    /\ auth = AuthIdle
    /\ reply = NoReply
    /\ calls = [ c \in Calls |-> IdleCall ]
    /\ fm = FmIdle
    /\ sim = SimIdle
    /\ \E data \in ValFiles, importType \in ValImportTypes, lenient \in BOOLEAN :
         /\ lenient => HasDateColumn(data.headers)
         /\ vd = [ phase |-> "input", data |-> data, importType |-> importType,
                   lenient |-> lenient, outcome |-> "pending", result |-> None ]

ApplyPerformValidation ==
    /\ vd.phase = "input"
    /\ LET out == performValidation(vd.data, vd.importType, vd.lenient)
       IN  vd' = [vd EXCEPT !.phase = "validated",
                            !.outcome = out.outcome,
                            !.result = out.result]
    /\ UNCHANGED <<uploads, parsing, calls, fm, sim, ft, auth, reply>>

NextValidation == ApplyPerformValidation

SpecValidation == InitValidation /\ [][NextValidation]_vars

(***************************************************************************)
(* Properties of performValidation (specification SpecValidation).         *)
(***************************************************************************)
Validated == vd.phase = "validated" /\ vd.outcome = "returned"

\* the indices of the entries of a list about a row and a column
EntriesAt(list, rowNumber, column) ==
    { k \in DOMAIN list : list[k].row = rowNumber /\ list[k].column = column }

ErrorsAt(errors, rowNumber, column, type) ==
    { k \in EntriesAt(errors, rowNumber, column) : errors[k].type = type }

\* C13: every required field of the import kind that is absent from the
\* headers gets exactly one error with row 0, that column and kind
\* "required"; a required field that is present gets none; no other error
\* has row 0; and the row-0 errors precede every error of a data row.
C13_MissingRequiredColumn ==
    Validated =>
        LET errors == vd.result[1].errors
            required == Range(getRequiredFields(vd.importType))
        IN  /\ \A f \in required :
                 Cardinality(ErrorsAt(errors, 0, f, "required"))
                     = (IF f \in Range(vd.data.headers) THEN 0 ELSE 1)
            /\ \A k \in DOMAIN errors :
                 errors[k].row = 0 =>
                     /\ errors[k].type = "required"
                     /\ errors[k].column \in required
                     /\ errors[k].column \notin Range(vd.data.headers)
            /\ \A j \in DOMAIN errors, k \in DOMAIN errors :
                 (errors[j].row = 0 /\ errors[k].row > 0) => j < k

C13_Witness ==
    /\ Validated
    /\ vd.importType = "CAMPAIGNS"
    /\ vd.data.headers = << f_budget, f_name >>
    /\ LET errors == vd.result[1].errors
       IN  /\ Len(errors) = 3
           /\ errors[1] = MissingColumnError(f_platform)
           /\ errors[2] = MissingColumnError(f_objective)
           /\ errors[3].row = 2
           /\ errors[3].type = "type"

\* C14: in a column whose header is a required field of the import kind, a
\* cell that is null, undefined, empty or made of white space only gets a
\* "required" error for its row and column, and any other cell gets none.
C14_RequiredFieldCheck ==
    Validated =>
        \A r \in DOMAIN vd.data.rows, k \in DOMAIN vd.data.headers :
            isRequiredField(vd.data.headers[k], vd.importType) =>
                ( ErrorsAt(vd.result[1].errors, r, vd.data.headers[k], "required") # {}
                    <=> IsEmptyValueOrBlank(CellAt(vd.data.rows[r], k)) )

\* a value fits an expected type
FitsType(value, expectedType, lenient) ==
    CASE expectedType = "number" -> value.t = "number" \/ ~NumberIsNaN(value)
      [] expectedType = "date" -> ~DateParseIsNaN(value, lenient)
      [] expectedType = "string" -> value.t = "string"

C16_RangeIsWarning ==
    Validated =>
        /\ \A r \in DOMAIN vd.data.rows, k \in DOMAIN vd.data.headers :
             LET header == vd.data.headers[k]
                 value == CellAt(vd.data.rows[r], k)
                 range == getFieldRange(header)
                 outside == /\ value.t = "number"
                            /\ range # None
                            /\ (value.n < range[1].min \/ value.n > range[1].max)
             IN  /\ Cardinality(EntriesAt(vd.result[1].warnings, r, header))
                      = (IF outside THEN 1 ELSE 0)
                 /\ outside => EntriesAt(vd.result[1].errors, r, header) = {}
        /\ getFieldRange(f_size) = None
        /\ getFieldRange(f_bid) = Some([min |-> 0, max |-> 100])
        /\ getFieldRange(f_budget) = Some([min |-> 0, max |-> 1000000])
        /\ getFieldRange(f_amount) = Some([min |-> 0, max |-> 1000000])
        /\ (vd.result[1].errors = << >>) => vd.result[1].isValid

C16_Witness ==
    /\ Validated
    /\ vd.importType = "UNKNOWN"
    /\ vd.data.headers = << f_bid, f_match_type >>
    /\ vd.data.rows = << << CellNum(150), CellStr(s_exact) >>,
                         << CellNum(100), CellStr(s_exact) >> >>
    /\ Len(vd.result[1].warnings) = 1
    /\ vd.result[1].warnings[1].row = 1
    /\ vd.result[1].errors = << >>
    /\ vd.result[1].isValid

\* C17: isValid holds exactly when there is no error; errorCount and
\* warningCount are the lengths of the two lists; totalRows is the
\* totalRows of the data; invalidRows is the number of "required" errors;
\* and validRows is totalRows minus invalidRows.
C17_ValidationSummary ==
    Validated =>
        LET result == vd.result[1]
            required == { k \in DOMAIN result.errors : result.errors[k].type = "required" }
        IN  /\ result.isValid <=> (result.errors = << >>)
            /\ result.summary.errorCount = Len(result.errors)
            /\ result.summary.warningCount = Len(result.warnings)
            /\ result.summary.totalRows = vd.data.totalRows
            /\ result.summary.invalidRows = Cardinality(required)
            /\ result.summary.validRows
                 = result.summary.totalRows - result.summary.invalidRows

C17_Witness ==
    /\ Validated
    /\ vd.importType = "KEYWORDS"
    /\ vd.data.headers = << f_keyword, f_match_type >>
    /\ vd.data.rows = << << CellStr(<< >>), CellNull >>,
                         << CellNum(150), CellStr(s_exact) >> >>
    /\ vd.result[1].summary
         = [ totalRows |-> 2, validRows |-> 0, invalidRows |-> 2,
             errorCount |-> 3, warningCount |-> 0 ]
    /\ ~vd.result[1].isValid

\* C18: performValidation returns a ValidationResult for every file data,
\* whatever the cell values, the row lengths and the headers: it never
\* throws.
C18_ValidationFailSoft ==
    vd.phase = "validated" => vd.outcome = "returned"

(***************************************************************************)
(* Property of mapRowData (specification Spec).                            *)
(***************************************************************************)
\* C19: the record submitted for a row holds exactly the target fields
\* mapping[h] of the headers h present in the mapping, each with the row's
\* cell at the index of h (undefined past the end of a short row); headers
\* absent from the mapping contribute nothing.
C19_RowToRecord ==
    \A c \in Calls :
        \A k \in DOMAIN calls[c].submitted :
            LET sent == calls[c].submitted[k]
                data == DataOf(uploads, calls[c].uploadId)
                row == data.rows[sent.row]
                mapping == calls[c].mapping
            IN  /\ DOMAIN sent.record
                     = { mapping[h] : h \in Range(data.headers) \cap DOMAIN mapping }
                /\ \A j \in DOMAIN data.headers :
                     data.headers[j] \in DOMAIN mapping =>
                         sent.record[mapping[data.headers[j]]]
                             = (IF j \in DOMAIN row THEN row[j] ELSE Undefined)

(***************************************************************************)
(* getFieldType as a function of its input: the initial states draw the    *)
(* header, put together from at most MaxParts parts, the one action        *)
(* applies the function to it.                                             *)
(***************************************************************************)
MaxParts == 2       \* parts a header handed to getFieldType is made of

p_able_campaign ==
    << "a", "b", "l", "e", "_", "c", "a", "m", "p", "a", "i", "g", "n" >>
p_type == << "_", "t", "y", "p", "e" >>
p_SIZE == << "S", "I", "Z", "E" >>
p_Start_Date == << "S", "t", "a", "r", "t", "_", "D", "a", "t", "e" >>
p_bi == << "b", "i" >>
p_d == << "d" >>

HeaderParts ==
    { f_budget, f_amount, f_bid, f_size, f_start_date, f_end_date, f_created_at,
      f_updated_at, f_name, p_able_campaign, p_type, p_SIZE, p_Start_Date, p_bi, p_d }

RECURSIVE Concat(_)
Concat(parts) == IF parts = << >> THEN << >> ELSE Head(parts) \o Concat(Tail(parts))

FieldTypeInputs == { Concat(parts) : parts \in SeqsUpTo(HeaderParts, MaxParts) }

InitFieldType ==
    /\ uploads = NoUploads
    /\ parsing = {}
    /\ calls = [ c \in Calls |-> IdleCall ]
    /\ fm = FmIdle
    /\ sim = SimIdle
    /\ vd = VdIdle
    /\ auth = AuthIdle
    /\ reply = NoReply
    /\ \E field \in FieldTypeInputs :
         ft = [ phase |-> "input", field |-> field, type |-> "" ]

ApplyGetFieldType ==
    /\ ft.phase = "input"
    /\ ft' = [ft EXCEPT !.phase = "typed", !.type = getFieldType(ft.field)]
    /\ UNCHANGED <<uploads, parsing, calls, fm, sim, vd, auth, reply>>

NextFieldType == ApplyGetFieldType

SpecFieldType == InitFieldType /\ [][NextFieldType]_vars

(***************************************************************************)
(* Property of getFieldType (specification SpecFieldType).                 *)
(***************************************************************************)
\* some stretch of the header spells the word when put in lower case
ContainsIgnoringCase(header, word) ==
    \E i \in 1..Len(header), j \in 1..Len(header) :
        toLowerCase(SubSeq(header, i, j)) = word

\* C21: the expected type of a column is number if its header contains
\* budget, amount, bid or size in any letter case, else date if it contains
\* start_date, end_date, created_at or updated_at, else string; so
\* "sizeable_campaign" and "budget_type" are numeric and the numeric rule
\* wins over the date rule.
C21_ExpectedTypeInference ==
    ft.phase = "typed" =>
        /\ ft.type =
             (IF \E word \in {f_budget, f_amount, f_bid, f_size} :
                     ContainsIgnoringCase(ft.field, word)
                THEN "number"
                ELSE IF \E word \in {f_start_date, f_end_date, f_created_at,
                                     f_updated_at} :
                            ContainsIgnoringCase(ft.field, word)
                       THEN "date"
                       ELSE "string")
        /\ ft.field = f_size \o p_able_campaign => ft.type = "number"
        /\ ft.field = f_budget_type => ft.type = "number"

C21_Witness ==
    /\ ft.phase = "typed"
    /\ ft.field = p_Start_Date \o p_SIZE
    /\ ft.type = "number"

(***************************************************************************)
(* Further properties of performValidation (specification SpecValidation). *)
(***************************************************************************)
\* the index of a header in the header list
ColumnIndex(headers, column) == CHOOSE k \in DOMAIN headers : headers[k] = column

\* the entries of a list are in row order and, within a row, in column
\* order, and an entry of a data row carries the cell at array index row - 1
InRowAndColumnOrder(list, data) ==
    /\ \A k \in DOMAIN list :
         list[k].row > 0 =>
             /\ list[k].row \in DOMAIN data.rows
             /\ list[k].column \in Range(data.headers)
             /\ list[k].value
                  = CellAt(data.rows[list[k].row], ColumnIndex(data.headers, list[k].column))
    /\ \A j \in DOMAIN list, k \in DOMAIN list :
         j < k =>
             /\ list[j].row <= list[k].row
             /\ (list[j].row = list[k].row /\ list[j].row > 0) =>
                    ColumnIndex(data.headers, list[j].column)
                        <= ColumnIndex(data.headers, list[k].column)

\* C22: the entries of the error list and of the warning list about data
\* rows carry row number = array index + 1 and come in non-decreasing row
\* order and, within one row, in header order: no entry of an earlier row
\* follows an entry of a later row.
C22_ErrorOrdering ==
    Validated =>
        /\ InRowAndColumnOrder(vd.result[1].errors, vd.data)
        /\ InRowAndColumnOrder(vd.result[1].warnings, vd.data)

C22_Witness ==
    /\ Validated
    /\ Len(vd.data.rows) = 2
    /\ LET errors == vd.result[1].errors
       IN  /\ Len(errors) = 3
           /\ errors[1].row = 1 /\ errors[1].column = vd.data.headers[1]
           /\ errors[2].row = 1 /\ errors[2].column = vd.data.headers[2]
           /\ errors[3].row = 2
    /\ Len(vd.result[1].warnings) = 1

(***************************************************************************)
(* The calls that reject before they touch the registry (uploadFile on a   *)
(* file validateFile refuses; validateData and suggestFieldMapping on an   *)
(* id with no data), and validateData.                                     *)
(***************************************************************************)
MAX_FILE_SIZE == 10485760

e_csv == << "c", "s", "v" >>
e_xlsx == << "x", "l", "s", "x" >>
e_xls == << "x", "l", "s" >>
e_json == << "j", "s", "o", "n" >>

ALLOWED_FILE_TYPES == << e_csv, e_xlsx, e_xls, e_json >>

\* file.name.split('.').pop()?.toLowerCase(): what follows the last dot, the
\* whole name when it has none
Extension(name) ==
    LET dots == { k \in DOMAIN name : name[k] = "." }
        last == IF dots = {} THEN 0 ELSE CHOOSE k \in dots : \A j \in dots : j <= k
    IN  toLowerCase(SubSeq(name, last + 1, Len(name)))

\* the message validateFile throws with, if it throws
validateFile(file) ==
    IF file.size > MAX_FILE_SIZE
      THEN Some("File size exceeds maximum allowed size of ${MAX_FILE_SIZE / 1024 / 1024}MB")
      ELSE IF Extension(file.name) = << >>
                \/ Extension(file.name) \notin Range(ALLOWED_FILE_TYPES)
             THEN Some("File type .${extension} is not allowed. Allowed types: ${ALLOWED_FILE_TYPES.join(', ')}")
             ELSE None

n_data_csv == << "d", "a", "t", "a", ".", "c", "s", "v" >>
n_data_CSV == << "d", "a", "t", "a", ".", "C", "S", "V" >>
n_data_exe == << "d", "a", "t", "a", ".", "e", "x", "e" >>
n_data == << "d", "a", "t", "a" >>

Files ==
    { [name |-> name, size |-> size] :
        name \in { n_data_csv, n_data_CSV, n_data_exe, n_data, << >> },
        size \in { 1024, MAX_FILE_SIZE, MAX_FILE_SIZE + 1 } }

\* validateFile throws: nothing is registered
UploadFileRejected(file) ==
    /\ validateFile(file) # None
    /\ reply' = [ op |-> "uploadFile", uploadId |-> "", message |-> validateFile(file)[1] ]
    /\ UNCHANGED <<uploads, parsing, calls, fm, sim, vd, ft, auth>>

\* performValidation on the files and import types of the service model,
\* computed once by its definition and looked up afterwards
ValidationOf ==
    [ input \in { << file, importType >> :
                    file \in ParsedFiles, importType \in UploadImportTypes } |->
        performValidation(input[1], input[2], FALSE) ]

\* status VALIDATING, then upload.validation = validation; a TypeError of
\* performValidation is rethrown through handleError
ValidateData(uploadId, importType) ==
    /\ HasData(uploads, uploadId)
    /\ LET out == ValidationOf[<< DataOf(uploads, uploadId), importType >>]
           validating == updateUploadStatus(uploads, uploadId, "VALIDATING")
       IN  IF out.outcome = "returned"
             THEN /\ uploads' = [validating EXCEPT ![uploadId].validation = out.result]
                  /\ UNCHANGED reply
             ELSE /\ uploads' = validating
                  /\ reply' = [ op |-> "validateData", uploadId |-> uploadId,
                                message |-> "Cannot convert object to primitive value" ]
    /\ UNCHANGED <<parsing, calls, fm, sim, vd, ft, auth>>

\* !upload || !upload.data: throw, before the status is touched
ValidateDataRejected(uploadId) ==
    /\ ~HasData(uploads, uploadId)
    /\ reply' = [ op |-> "validateData", uploadId |-> uploadId, message |-> NoDataMessage ]
    /\ UNCHANGED <<uploads, parsing, calls, fm, sim, vd, ft, auth>>

SuggestFieldMappingRejected(uploadId) ==
    /\ ~HasData(uploads, uploadId)
    /\ reply' = [ op |-> "suggestFieldMapping", uploadId |-> uploadId,
                  message |-> NoDataMessage ]
    /\ UNCHANGED <<uploads, parsing, calls, fm, sim, vd, ft, auth>>

(***************************************************************************)
(* The whole service, every operation of it, with one importData           *)
(* invocation.                                                             *)
(***************************************************************************)
FirstCall == { CallOrder[1] }

NextLifecycle ==
    \/ \E file \in Files : UploadFileRejected(file)
    \/ \E file \in Files, importType \in UploadImportTypes :
         validateFile(file) = None /\ UploadFileStart(importType)
    \/ \E uploadId \in UploadIds, fileData \in ParsedFiles : ParseResolve(uploadId, fileData)
    \/ \E uploadId \in UploadIds : ParseReject(uploadId)
    \/ \E uploadId \in UploadIds, importType \in UploadImportTypes :
         ValidateData(uploadId, importType)
    \/ \E uploadId \in UploadIds \cup {UnknownId} : ValidateDataRejected(uploadId)
    \/ \E uploadId \in UploadIds, importType \in UploadImportTypes :
         SuggestFieldMapping(uploadId, importType)
    \/ \E uploadId \in UploadIds \cup {UnknownId} : SuggestFieldMappingRejected(uploadId)
    \/ \E c \in FirstCall, uploadId \in UploadIds \cup {UnknownId} :
         ImportDataRejected(c, uploadId)
    \/ \E c \in FirstCall, uploadId \in DOMAIN uploads, hasCallback \in BOOLEAN :
         \E mapping \in { CallerMapping(uploads[uploadId]) } :
           ImportDataStart(c, uploadId, mapping, hasCallback)
    \/ \E c \in FirstCall, r \in 0..(MaxRows - 1) :
         \E recordId \in ResponseIds(r + 1),
            thrown \in {None} \cup { Some(e) : e \in CallbackErrors } :
           SubmitResolve(c, r, recordId, thrown)
    \/ \E c \in FirstCall, r \in 0..(MaxRows - 1), error \in SubmitErrors :
         SubmitReject(c, r, error)
    \/ \E c \in FirstCall : ImportDataFinish(c)

SpecLifecycle == Init /\ [][NextLifecycle]_vars

(***************************************************************************)
(* Properties of the service (specification SpecLifecycle).                *)
(***************************************************************************)
\* C23: once an upload has its data, no step of validateData,
\* suggestFieldMapping or importData changes the headers, the rows or
\* totalRows of it, whatever happens to each row.
C23_DataReadOnly ==
    [][ \A u \in DOMAIN uploads :
          uploads[u].data # None =>
              /\ u \in DOMAIN uploads'
              /\ uploads'[u].data # None
              /\ uploads'[u].data[1].headers = uploads[u].data[1].headers
              /\ uploads'[u].data[1].rows = uploads[u].data[1].rows
              /\ uploads'[u].data[1].totalRows = uploads[u].data[1].totalRows ]_vars

C23_Witness ==
    \E u \in DOMAIN uploads :
        /\ uploads[u].data # None
        /\ uploads[u].data[1].totalRows = 2
        /\ uploads[u].data[1].rows = SubSeq(SampleRows, 1, 2)
        /\ uploads[u].validation # None
        /\ uploads[u].mapping # None
        /\ uploads[u].result # None
        /\ uploads[u].result[1].failed = 1
        /\ uploads[u].status = "COMPLETED"

(***************************************************************************)
(* Accounting of performImport (specification Spec).                       *)
(***************************************************************************)
\* C24 (as claimed): when performImport has returned, imported + failed +
\* skipped equals the number of data rows, whatever the submit resolved with
\* and whether or not the progress callback threw.
C24_ImportAccounting ==
    \A c \in Calls :
        PerformImportReturned(c) =>
            calls[c].result.imported + calls[c].result.failed + calls[c].result.skipped
                = Len(RowsOfCall(c))

(***************************************************************************)
(* Summary of performValidation (specification SpecValidation).            *)
(***************************************************************************)
\* C25 (as claimed): in every ValidationResult the invalid-row count and the
\* valid-row count of the summary both lie between 0 and totalRows.
C25_SummaryBounds ==
    Validated =>
        LET summary == vd.result[1].summary
        IN  /\ 0 <= summary.invalidRows
            /\ summary.invalidRows <= summary.totalRows
            /\ 0 <= summary.validRows
            /\ summary.validRows <= summary.totalRows

(***************************************************************************)
(* Further properties of generateFieldMapping (specification SpecMapping). *)
(***************************************************************************)
\* C26: for each import kind, a source header that is exactly one of the
\* kind's target field names is mapped to that same target field.
C26_IdentityOnSchemaFields ==
    fm.phase = "mapped" =>
        \A k \in DOMAIN fm.headers :
            fm.headers[k] \in Range(getTargetFields(fm.importType)) =>
                /\ fm.headers[k] \in DOMAIN fm.mapping
                /\ fm.mapping[fm.headers[k]] = fm.headers[k]

\* C26 witness: "budget" and "budget_type" of the campaign schema, each mapped
\* to itself although "budget_type" also scores above 0.5 against "budget".
C26_Witness ==
    /\ fm.phase = "mapped"
    /\ fm.importType = "CAMPAIGNS"
    /\ fm.headers = << f_budget, f_budget_type >>
    /\ ScoreGT(Similarity(Normalize(f_budget_type), Normalize(f_budget)), ScoreHalf)
    /\ fm.mapping[f_budget] = f_budget
    /\ fm.mapping[f_budget_type] = f_budget_type

\* the indices of the headers the mapping sends to a target field
HeadersMappedTo(headers, mapping, target) ==
    { k \in DOMAIN headers :
        headers[k] \in DOMAIN mapping /\ mapping[headers[k]] = target }

GreatestOf(indices) == CHOOSE k \in indices : \A j \in indices : j <= k

\* C27: the suggested mapping may send two distinct headers to one target
\* field; the record mapRowData builds with it has exactly the targets of the
\* mapped headers as fields, and each field holds the cell of the header with
\* the greatest index among those mapped to it.
C27_LastHeaderWins ==
    fm.phase = "applied" =>
        /\ DOMAIN fm.record
             = { fm.mapping[h] : h \in Range(fm.headers) \cap DOMAIN fm.mapping }
        /\ \A target \in DOMAIN fm.record :
             LET indices == HeadersMappedTo(fm.headers, fm.mapping, target)
             IN  /\ indices # {}
                 /\ fm.record[target] = CellAt(fm.row, GreatestOf(indices))

\* C27 witness: "budget_type" and "Budget Type" are both mapped to budget_type
\* and the record holds the cell of the second only.
C27_Witness ==
    /\ fm.phase = "applied"
    /\ fm.importType = "CAMPAIGNS"
    /\ fm.headers = << f_budget_type, h_Budget_Type >>
    /\ f_budget_type # h_Budget_Type
    /\ fm.mapping[f_budget_type] = f_budget_type
    /\ fm.mapping[h_Budget_Type] = f_budget_type
    /\ fm.row = << CellNum(1), CellNum(2) >>
    /\ DOMAIN fm.record = { f_budget_type }
    /\ fm.record[f_budget_type] = CellNum(2)

(***************************************************************************)
(* Failed uploads (specification SpecLifecycle).                           *)
(***************************************************************************)
\* the upload is registered, its uploadFile call is over and it has no data:
\* parseFile rejected
ParseFailed(u) == u \in DOMAIN uploads /\ u \notin parsing /\ uploads[u].data = None

\* this step is an importData call on u that rejected
ImportRejectedOn(u) ==
    \E c \in Calls :
        /\ calls[c].pc = "idle"
        /\ calls'[c].pc = "done"
        /\ calls'[c].outcome = "rejected"
        /\ calls'[c].uploadId = u

\* One step of the service seen from the uploads whose parse is failing or
\* has failed.  statuses: what the status of such a record may be.
ParseFailureStep(statuses) ==
    /\ \A u \in parsing \ parsing' :
         /\ u \in DOMAIN uploads'
         /\ \/ uploads'[u].data # None /\ uploads'[u].status = "PROCESSING"
            \/ /\ uploads' = uploads
               /\ uploads'[u].status \in statuses
               /\ uploads'[u].data = None
    /\ \A u \in DOMAIN uploads :
         ParseFailed(u) =>
             /\ u \in DOMAIN uploads'
             /\ u \notin parsing'
             /\ uploads'[u].data = None
             /\ uploads'[u].validation = None
             /\ uploads'[u].mapping = None
             /\ uploads'[u].result = None
             /\ uploads'[u].status \in statuses
             /\ uploads'[u].status # uploads[u].status => ImportRejectedOn(u)
             /\ (reply' # reply /\ reply'.uploadId = u) =>
                    /\ reply'.op \in {"validateData", "suggestFieldMapping"}
                    /\ reply'.message = NoDataMessage
             /\ \A c \in Calls :
                    (calls'[c] # calls[c] /\ calls'[c].uploadId = u) =>
                        /\ calls'[c].outcome = "rejected"
                        /\ calls'[c].message = NoDataMessage
    /\ (reply' # reply /\ reply'.op = "uploadFile") =>
         uploads' = uploads /\ parsing' = parsing

\* C28 (as claimed): when parseFile rejects, the record stays in the registry
\* with status UPLOADING and no data, is never removed, and validateData,
\* suggestFieldMapping and importData on that id reject with 'Upload not
\* found or no data available'; a file that validateFile rejects leaves no
\* record.
C28_StaysUploading == [][ParseFailureStep({"UPLOADING"})]_vars

\* C28 (amended): as claimed, except that the status is UPLOADING only until
\* an importData on that id is rejected: the catch block of importData sets
\* the record to FAILED.  uploadFile itself leaves the registry as it was.
C28_ParseFailureLeavesRecord == [][ParseFailureStep({"UPLOADING", "FAILED"})]_vars

\* C28 witness: the parse of upload_1 failed, a later importData on it was
\* rejected and set it to FAILED, and a suggestFieldMapping on it was rejected.
C28_Witness ==
    /\ ParseFailed("upload_1")
    /\ uploads["upload_1"].status = "FAILED"
    /\ \E c \in Calls : /\ calls[c].outcome = "rejected"
                        /\ calls[c].uploadId = "upload_1"
                        /\ calls[c].message = NoDataMessage
    /\ reply = [ op |-> "suggestFieldMapping", uploadId |-> "upload_1",
                 message |-> NoDataMessage ]

(***************************************************************************)
(* Repeated and overlapping importData calls (specification Spec).         *)
(***************************************************************************)
\* the invocations that got past the guard of importData on upload u
StartedOn(u) == { c \in Calls : ImportStarted(c) /\ calls[c].uploadId = u }

\* how many times row r (1-based) of upload u was handed to importRecord
RECURSIVE SubmissionsOf(_, _)
SubmissionsOf(r, cs) ==
    IF cs = {}
      THEN 0
      ELSE LET c == CHOOSE x \in cs : TRUE
           IN  CountIn(calls[c].submitted, LAMBDA e : e.row = r)
                 + SubmissionsOf(r, cs \ {c})

\* this step is the continuation of importData of invocation c
FinishesIn(c) == calls[c].pc = "returned" /\ calls'[c].pc = "done"

\* C29: importData is rejected only for an upload that is unknown or has no
\* data, whatever its status; once the k invocations started on an upload
\* have all returned, each of its rows was submitted k times; and
\* upload.result changes only when an invocation finishes, to the result of
\* that invocation, so it holds the result of the one that finished last.
C29_NoReentrancyGuard ==
    /\ [](\A u \in { x \in DOMAIN uploads : uploads[x].data # None } :
            (\A c \in StartedOn(u) : PerformImportReturned(c)) =>
                \A r \in 1..Len(DataOf(uploads, u).rows) :
                    SubmissionsOf(r, StartedOn(u)) = Cardinality(StartedOn(u)))
    /\ [][ /\ \A c \in Calls :
                (calls[c].pc = "idle" /\ calls'[c].outcome = "rejected") =>
                    \/ calls'[c].uploadId \notin DOMAIN uploads
                    \/ uploads[calls'[c].uploadId].data = None
           /\ \A c \in Calls :
                FinishesIn(c) =>
                    /\ uploads'[calls[c].uploadId].result = Some(calls[c].result)
                    /\ uploads'[calls[c].uploadId].status = "COMPLETED"
           /\ \A u \in DOMAIN uploads :
                uploads'[u].result # uploads[u].result =>
                    \E c \in Calls : FinishesIn(c) /\ calls[c].uploadId = u ]_vars

\* C29 witness: two invocations on upload_1 have both finished, each having
\* submitted both rows; their results differ and the upload holds the result
\* of the first invocation, which therefore overlapped the second and finished
\* after it.
C29_Witness ==
    /\ StartedOn("upload_1") = Calls
    /\ \A c \in Calls : calls[c].pc = "done" /\ Len(calls[c].submitted) = 2
    /\ SubmissionsOf(1, Calls) = 2
    /\ SubmissionsOf(2, Calls) = 2
    /\ calls["call_1"].result # calls["call_2"].result
    /\ uploads["upload_1"].result = Some(calls["call_1"].result)
    /\ uploads["upload_1"].status = "COMPLETED"

(***************************************************************************)
(* AuthService: the axios client of the service with its response          *)
(* interceptor, refreshAccessToken and logout.  A token is modelled by its *)
(* presence.  auth.inflight holds the requests sent through this.client    *)
(* and not yet answered, each with the _retry flag of its config;          *)
(* auth.refreshing holds the requests whose interceptor awaits the POST of *)
(* refreshAccessToken, which goes through the global axios and so past the *)
(* interceptor.                                                            *)
(***************************************************************************)
MaxRequests == 2    \* requests the callers of the service send through this.client
MaxLogouts == 3     \* logout() invocations followed

\* the service before its constructor ran, over a localStorage holding the
\* tokens or not
Unconstructed(storedAccess, storedRefresh) ==
    [ phase |-> "ready", accessToken |-> FALSE, refreshToken |-> FALSE,
      storedAccess |-> storedAccess, storedRefresh |-> storedRefresh,
      inflight |-> {}, refreshing |-> {}, nextId |-> 1,
      issued |-> 0, refreshes |-> 0, replays |-> 0, logouts |-> 0,
      resolved |-> 0, rejected |-> 0 ]

loadTokensFromStorage(a) ==
    [a EXCEPT !.accessToken = a.storedAccess, !.refreshToken = a.storedRefresh]

setTokens(a) ==
    [a EXCEPT !.accessToken = TRUE, !.refreshToken = TRUE,
              !.storedAccess = TRUE, !.storedRefresh = TRUE]

clearTokens(a) ==
    [a EXCEPT !.accessToken = FALSE, !.refreshToken = FALSE,
              !.storedAccess = FALSE, !.storedRefresh = FALSE]

\* this.client.post(...) / this.client.get(...): a new request, no _retry yet
Send(a, kind) ==
    [a EXCEPT !.inflight = @ \cup { [id |-> a.nextId, kind |-> kind, retry |-> FALSE] },
              !.nextId = @ + 1]

\* logout() up to its await: the POST /logout leaves through this.client
logout(a) == [Send(a, "logout") EXCEPT !.logouts = @ + 1]

\* The promise of a request settles.  For POST /logout that is the end of
\* logout(): catch logs, finally clears the tokens.  For a caller's request
\* the caller sees it resolve (ok) or reject.
Settle(a, req, ok) ==
    IF req.kind = "logout"
      THEN clearTokens(a)
      ELSE IF ok THEN [a EXCEPT !.resolved = @ + 1]
                 ELSE [a EXCEPT !.rejected = @ + 1]

Answered(a, req) == [a EXCEPT !.inflight = @ \ {req}]

InitAuth ==
    /\ uploads = NoUploads
    /\ parsing = {}
    /\ calls = [ c \in Calls |-> IdleCall ]
    /\ fm = FmIdle
    /\ sim = SimIdle
    /\ vd = VdIdle
    /\ ft = FtIdle
    /\ reply = NoReply
    /\ \E storedAccess \in BOOLEAN, storedRefresh \in BOOLEAN :
         auth = loadTokensFromStorage(Unconstructed(storedAccess, storedRefresh))

\* a caller's request through this.client (getCurrentUser, getSessions, ...)
SendRequest ==
    /\ auth.issued < MaxRequests
    /\ auth' = [Send(auth, "api") EXCEPT !.issued = @ + 1]
    /\ UNCHANGED <<uploads, parsing, calls, fm, sim, vd, ft, reply>>

\* the server answers 2xx: (response) => response
RespondOk(req) ==
    /\ req \in auth.inflight
    /\ auth' = Settle(Answered(auth, req), req, TRUE)
    /\ UNCHANGED <<uploads, parsing, calls, fm, sim, vd, ft, reply>>

\* the server answers with an error other than 401, or not at all
RespondError(req) ==
    /\ req \in auth.inflight
    /\ auth' = Settle(Answered(auth, req), req, FALSE)
    /\ UNCHANGED <<uploads, parsing, calls, fm, sim, vd, ft, reply>>

\* The server answers 401.  With _retry set the error is passed on.
\* Otherwise _retry is set and refreshAccessToken runs: without a refresh
\* token it throws at once, the catch block invokes logout() and the request
\* is rejected; with one, the refresh POST is sent and the interceptor waits.
Respond401(req) ==
    /\ req \in auth.inflight
    /\ LET a == Answered(auth, req)
       IN  IF req.retry
             THEN auth' = Settle(a, req, FALSE)
             ELSE IF ~auth.refreshToken
                    THEN /\ auth.logouts < MaxLogouts
                         /\ auth' = Settle(logout(a), req, FALSE)
                    ELSE auth' = [a EXCEPT !.refreshing = @ \cup {req},
                                           !.refreshes = @ + 1]
    /\ UNCHANGED <<uploads, parsing, calls, fm, sim, vd, ft, reply>>

\* the refresh POST resolves: setTokens, then this.client(originalRequest)
\* sends the request again with _retry set
RefreshResolve(req) ==
    /\ req \in auth.refreshing
    /\ auth' = [setTokens(auth) EXCEPT !.refreshing = @ \ {req},
                                       !.inflight = @ \cup { [req EXCEPT !.retry = TRUE] },
                                       !.replays = @ + 1]
    /\ UNCHANGED <<uploads, parsing, calls, fm, sim, vd, ft, reply>>

\* the refresh POST rejects: the catch block invokes logout() and the request
\* is rejected with the refresh error
RefreshReject(req) ==
    /\ req \in auth.refreshing
    /\ auth.logouts < MaxLogouts
    /\ auth' = Settle(logout([auth EXCEPT !.refreshing = @ \ {req}]), req, FALSE)
    /\ UNCHANGED <<uploads, parsing, calls, fm, sim, vd, ft, reply>>

NextAuth ==
    \/ SendRequest
    \/ \E req \in auth.inflight : RespondOk(req)
    \/ \E req \in auth.inflight : RespondError(req)
    \/ \E req \in auth.inflight : Respond401(req)
    \/ \E req \in auth.refreshing : RefreshResolve(req)
    \/ \E req \in auth.refreshing : RefreshReject(req)

SpecAuth == InitAuth /\ [][NextAuth]_vars

\* C30 (as claimed): the 401 handling ends: every request sent by a caller
\* causes at most one token refresh and one replay, and at most one logout()
\* when its refresh fails; the 401 answers to the logout requests cause no
\* further refresh and no further logout.
C30_RefreshAndLogoutOnce ==
    /\ auth.refreshes <= auth.issued
    /\ auth.replays <= auth.issued
    /\ auth.logouts <= auth.issued

====
